---- MODULE Spec2Model ----
(***************************************************************************)
(* Model of utilities/use_only_IAM_access_controls/update_permission.py:   *)
(* the script that switches Lake Formation to "use only IAM access         *)
(* control".  The script is one sequential process; the model has one      *)
(* action per statement that talks to the operator or to a remote service. *)
(* Every remote call may fail (botocore raises); the failure is drawn with *)
(* \E ok \in BOOLEAN.                                                      *)
(*                                                                         *)
(* Encodings.                                                              *)
(*  - A Python dict of unknown shape (the Resource of a permission record)  *)
(*    is a sequence of nodes in insertion order, each                      *)
(*    [key, parent, isDict, val]; parent = 0 is the top-level dict.        *)
(*  - A key that is absent from a dict and is read with .get() is the      *)
(*    value None; 'TargetDatabase' / 'TargetTable' present is a BOOLEAN.   *)
(*  - exitStatus is -1 while the process runs.                             *)
(***************************************************************************)
EXTENDS Integers, Sequences, FiniteSets, TLC

\* ---------------------------------------------------------------- bounds
MaxPrompts == 2
MaxLocations == 2
MaxDbs == 2
MaxPerms == 2

\* ------------------------------------------------------------ data values
None == "None"
OwnAccount == "111122223333"
OtherAccount == "444455556666"

Sentinel == "IAM_ALLOWED_PRINCIPALS"
iam_allowed_principal == [DataLakePrincipalIdentifier |-> Sentinel]
SentinelAll == [Principal |-> iam_allowed_principal, Permissions |-> <<"ALL">>]

Min(a, b) == IF a < b THEN a ELSE b

\* The elements of U at the indices S, in U's order.
Pick(U, S) ==
    LET n == Cardinality(S)
        f == CHOOSE g \in [1..n -> S] : \A i, j \in 1..n : i < j => g[i] < g[j]
    IN  [i \in 1..n |-> U[f[i]]]

SubLists(U, max) ==
    { Pick(U, S) : S \in { T \in SUBSET (1..Len(U)) : Cardinality(T) <= max } }

\* ------------------------------------------------- resource records (dicts)
Leaf(k, p, v) == [key |-> k, parent |-> p, isDict |-> FALSE, val |-> v]
Dict(k, p) == [key |-> k, parent |-> p, isDict |-> TRUE, val |-> ""]

catalog_resource == << Dict("Catalog", 0) >>
database_resource(name) == << Dict("Database", 0), Leaf("Name", 1, name) >>
table_resource(db, name) ==
    << Dict("Table", 0), Leaf("DatabaseName", 1, db), Leaf("Name", 1, name) >>

\* The indices of the entries of dict n of resource t, in iteration order.
Keys(t, n) ==
    LET S == { i \in 1..Len(t) : t[i].parent = n }
    IN  Pick([i \in 1..Len(t) |-> i], S)

\* def get_catalog_id(resource): the loop returns at the first key that is
\* either a dict (the result of the recursive call, None included) or the
\* key 'CatalogId'; falling off the loop returns None.
RECURSIVE get_catalog_id(_, _)
get_catalog_id(t, n) ==
    LET ks == Keys(t, n)
        hit == { j \in 1..Len(ks) : t[ks[j]].isDict \/ t[ks[j]].key = "CatalogId" }
    IN  IF hit = {} THEN None
        ELSE LET k == ks[CHOOSE j \in hit : \A h \in hit : j <= h]
             IN  IF t[k].isDict THEN get_catalog_id(t, k) ELSE t[k].val


\* Does the record hold, at any depth, a CatalogId equal to id?
ContainsCatalogId(t, id) ==
    \E i \in 1..Len(t) : t[i].key = "CatalogId" /\ ~t[i].isDict /\ t[i].val = id

\* ----------------------------------------------- what the services hold
ArnUniverse ==
    << "arn:aws:s3:::lake-a", "arn:aws:s3:::lake-b",
       "arn:aws:s3:::lake-c", "arn:aws:s3:::lake-d" >>

Table(name, link) == [Name |-> name, TargetTable |-> link]
Database(name, link, uri, tbls) ==
    [Name |-> name, TargetDatabase |-> link, LocationUri |-> uri, Tables |-> tbls]

DbUniverse ==
    << Database("sales", FALSE, "s3://lake-a/sales",
                << Table("orders", FALSE), Table("orders_link", TRUE) >>),
       Database("shared_link", TRUE, "", << Table("remote", FALSE) >>),
       Database("raw", FALSE, None,
                << Table("events_link", TRUE), Table("events", FALSE) >>) >>

\* The page sizes the services may answer with.
PageSizes == { 1, 2 }

Principal(id) == [DataLakePrincipalIdentifier |-> id]
\* PermissionsWithGrantOption, which the script only passes through, is left out.
Permission(id, resource, granted) ==
    [Principal |-> Principal(id), Resource |-> resource, Permissions |-> granted]

\* The record the permission service lists for a granted resource: the
\* resource of the request with the catalog id of the account filled in.
StoredResource(r) ==
    IF r = catalog_resource THEN r
    ELSE << r[1], Leaf("CatalogId", 1, OwnAccount) >> \o Tail(r)

PermUniverse ==
    << Permission("alice", StoredResource(database_resource("sales")), <<"ALTER">>),
       Permission(Sentinel, StoredResource(table_resource("sales", "orders")), <<"ALL">>),
       Permission("bob",
                  << Dict("Database", 0), Leaf("CatalogId", 1, OtherAccount),
                     Leaf("Name", 1, "shared") >>, <<"DESCRIBE">>),
       Permission("alice", catalog_resource, <<"CREATE_DATABASE">>),
       Permission("bob",
                  << Dict("TableWithColumns", 0), Dict("ColumnWildcard", 1),
                     Leaf("CatalogId", 1, OwnAccount), Leaf("Name", 1, "orders") >>,
                  <<"SELECT">>),
       Permission("carol", StoredResource(table_resource("sales", "orders")),
                  <<"SELECT">>) >>

DefaultPermissionChoices ==
    { << >>, << [Principal |-> Principal("alice"), Permissions |-> <<"SELECT">>] >> }

Answers == { "y", "Yes", "n", "No", "maybe" }

\* ------------------------------------------------------------------ state
VARIABLES
    pc,                \* the statement the script is at
    exitStatus,        \* -1 while running, else the process's exit status
    account_id,        \* line 25
    promptDepth,       \* number of input() calls made so far
    lastAnswer,        \* the operator's latest answer, as typed
    settings,          \* Lake Formation: the data lake settings
    data_lake_setting, \* line 46
    registered,        \* Lake Formation: the registered locations
    res,               \* lines 53, 151: the latest list response
    resources,         \* line 54
    rIdx,              \* position of "for r in resources"
    catalog,           \* Glue: the databases and their tables
    updated,           \* Glue: the DatabaseInput records applied
    pageToken,         \* the paginators' continuation token
    databases,         \* line 72
    dbIdx,             \* position of "for d in databases"
    tables,            \* line 122
    tIdx,              \* position of "for t in tables"
    perms,             \* Lake Formation: the permission records
    permissions,       \* line 152
    pIdx,              \* position of "for p in permissions"
    pageSize,          \* the page size the services answer with
    calls              \* every remote call issued so far, in order

prog == << account_id, promptDepth, lastAnswer, data_lake_setting, res, resources,
           rIdx, pageToken, databases, dbIdx, tables, tIdx, permissions, pIdx >>
services == << settings, registered, catalog, updated, perms, pageSize >>
vars == << pc, exitStatus, calls, prog, services >>

Call(op, principal, resource, name, ok) ==
    [op |-> op, principal |-> principal, resource |-> resource, name |-> name, ok |-> ok]

Issue(op, principal, resource, name, ok) ==
    calls' = Append(calls, Call(op, principal, resource, name, ok))

\* An exception that no handler catches ends the process with status 1.
Raise == pc' = "crashed" /\ exitStatus' = 1

\* One page of a service's list, from offset tok.
Page(list, tok) ==
    [items |-> SubSeq(list, tok + 1, Min(tok + pageSize, Len(list))),
     NextToken |-> IF tok + pageSize < Len(list) THEN tok + pageSize ELSE 0]

HasNextToken_never(r) == FALSE

\* 'NextToken' in res
HasNextToken(r) == r.NextToken # 0

Init ==
    /\ pc = "get_caller_identity"
    /\ exitStatus = -1
    /\ account_id = None
    /\ promptDepth = 0
    /\ lastAnswer = None
    /\ settings \in [DataLakeAdmins : {<< Principal("admin") >>},
                     CreateDatabaseDefaultPermissions : DefaultPermissionChoices,
                     CreateTableDefaultPermissions : DefaultPermissionChoices]
    /\ data_lake_setting = << >>
    /\ \E n \in 0..MaxLocations : registered = SubSeq(ArnUniverse, 1, n)
    /\ res = [NextToken |-> 0]
    /\ resources = << >>
    /\ rIdx = 1
    /\ catalog \in SubLists(DbUniverse, MaxDbs)
    /\ updated = {}
    /\ pageToken = 0
    /\ databases = << >>
    /\ dbIdx = 1
    /\ tables = << >>
    /\ tIdx = 1
    /\ perms \in SubLists(PermUniverse, MaxPerms)
    /\ permissions = << >>
    /\ pIdx = 1
    /\ pageSize \in PageSizes
    /\ calls = << >>

\* ------------------------------------------------ 0. identity and prompt
\* line 25: account_id = sts.get_caller_identity().get('Account')
GetCallerIdentity ==
    /\ pc = "get_caller_identity"
    /\ \E ok \in BOOLEAN :
        /\ Issue("get_caller_identity", None, << >>, None, ok)
        /\ IF ok
           THEN /\ account_id' = OwnAccount
                /\ pc' = "prompt"
                /\ UNCHANGED exitStatus
           ELSE Raise /\ UNCHANGED account_id
    /\ UNCHANGED << promptDepth, lastAnswer, data_lake_setting, res, resources, rIdx,
                    pageToken, databases, dbIdx, tables, tIdx, permissions, pIdx >>
    /\ UNCHANGED services

Lower_as_typed(s) == s

\* str.lower() on the answers the operator may type.
Lower(s) ==
    CASE s = "Yes" -> "yes"
      [] s = "No" -> "no"
      [] OTHER -> s

\* lines 29-37: def prompt(message); an unrecognised answer calls prompt again,
\* and when the inner call returns the outer one returns too.
Prompt ==
    /\ pc = "prompt"
    /\ promptDepth < MaxPrompts
    /\ \E answer \in Answers :
        /\ lastAnswer' = answer
        /\ promptDepth' = promptDepth + 1
        /\ IF Lower(answer) \in {"n", "no"}
           THEN pc' = "exited" /\ exitStatus' = 0
           ELSE IF Lower(answer) \notin {"y", "yes"}
                THEN pc' = "prompt" /\ UNCHANGED exitStatus
                ELSE pc' = "get_data_lake_settings" /\ UNCHANGED exitStatus
    /\ UNCHANGED << account_id, data_lake_setting, res, resources, rIdx, pageToken,
                    databases, dbIdx, tables, tIdx, permissions, pIdx >>
    /\ UNCHANGED << calls, services >>

\* ------------------------------------------------ 1. data lake settings
ModifiedSettings_database_only(s) ==
    [s EXCEPT !.CreateDatabaseDefaultPermissions = << SentinelAll >>]

\* lines 47-48
ModifiedSettings(s) ==
    [s EXCEPT !.CreateDatabaseDefaultPermissions = << SentinelAll >>,
              !.CreateTableDefaultPermissions = << SentinelAll >>]

\* lines 46-48
GetDataLakeSettings ==
    /\ pc = "get_data_lake_settings"
    /\ \E ok \in BOOLEAN :
        /\ Issue("get_data_lake_settings", None, << >>, None, ok)
        /\ IF ok
           THEN /\ data_lake_setting' = ModifiedSettings(settings)
                /\ pc' = "put_data_lake_settings"
                /\ UNCHANGED exitStatus
           ELSE Raise /\ UNCHANGED data_lake_setting
    /\ UNCHANGED << account_id, promptDepth, lastAnswer, res, resources, rIdx, pageToken,
                    databases, dbIdx, tables, tIdx, permissions, pIdx >>
    /\ UNCHANGED services

\* line 49
PutDataLakeSettings ==
    /\ pc = "put_data_lake_settings"
    /\ \E ok \in BOOLEAN :
        /\ Issue("put_data_lake_settings", None, << >>, None, ok)
        /\ IF ok
           THEN /\ settings' = data_lake_setting
                /\ pc' = "list_resources"
                /\ UNCHANGED exitStatus
           ELSE Raise /\ UNCHANGED settings
    /\ UNCHANGED prog
    /\ UNCHANGED << registered, catalog, updated, perms, pageSize >>

\* ------------------------------------------------ 2. registered locations
ListResources_overwrite ==
    /\ pc = "list_resources"
    /\ \E ok \in BOOLEAN :
        /\ Issue("list_resources", None, << >>, None, ok)
        /\ IF ok
           THEN LET r == Page(registered, res.NextToken)
                IN  /\ res' = [NextToken |-> r.NextToken]
                    /\ resources' = r.items
                    /\ pc' = IF HasNextToken(r) THEN "list_resources" ELSE "deregister"
                    /\ UNCHANGED exitStatus
           ELSE Raise /\ UNCHANGED << res, resources >>
    /\ UNCHANGED << account_id, promptDepth, lastAnswer, data_lake_setting, rIdx, pageToken,
                    databases, dbIdx, tables, tIdx, permissions, pIdx >>
    /\ UNCHANGED services

\* lines 53-57: the first list_resources call and the "while 'NextToken' in
\* res" loop; resources.extend(...) appends each page.
ListResources ==
    /\ pc = "list_resources"
    /\ \E ok \in BOOLEAN :
        /\ Issue("list_resources", None, << >>, None, ok)
        /\ IF ok
           THEN LET r == Page(registered, res.NextToken)
                IN  /\ res' = [NextToken |-> r.NextToken]
                    /\ resources' = resources \o r.items
                    /\ pc' = IF HasNextToken(r) THEN "list_resources" ELSE "deregister"
                    /\ UNCHANGED exitStatus
           ELSE Raise /\ UNCHANGED << res, resources >>
    /\ UNCHANGED << account_id, promptDepth, lastAnswer, data_lake_setting, rIdx, pageToken,
                    databases, dbIdx, tables, tIdx, permissions, pIdx >>
    /\ UNCHANGED services

DeregisterResource_caught ==
    /\ pc = "deregister"
    /\ rIdx <= Len(resources)
    /\ \E ok \in BOOLEAN :
        /\ Issue("deregister_resource", None, << >>, resources[rIdx], ok)
        /\ registered' = IF ok THEN SelectSeq(registered, LAMBDA a : a # resources[rIdx])
                               ELSE registered
    /\ rIdx' = rIdx + 1
    /\ UNCHANGED << pc, exitStatus >>
    /\ UNCHANGED << account_id, promptDepth, lastAnswer, data_lake_setting, res, resources,
                    pageToken, databases, dbIdx, tables, tIdx, permissions, pIdx >>
    /\ UNCHANGED << settings, catalog, updated, perms, pageSize >>

\* lines 58-60: one iteration of "for r in resources"
DeregisterResource ==
    /\ pc = "deregister"
    /\ rIdx <= Len(resources)
    /\ \E ok \in BOOLEAN :
        /\ Issue("deregister_resource", None, << >>, resources[rIdx], ok)
        /\ IF ok
           THEN /\ registered' = SelectSeq(registered, LAMBDA a : a # resources[rIdx])
                /\ rIdx' = rIdx + 1
                /\ UNCHANGED << pc, exitStatus >>
           ELSE Raise /\ UNCHANGED << registered, rIdx >>
    /\ UNCHANGED << account_id, promptDepth, lastAnswer, data_lake_setting, res, resources,
                    pageToken, databases, dbIdx, tables, tIdx, permissions, pIdx >>
    /\ UNCHANGED << settings, catalog, updated, perms, pageSize >>

\* the loop of line 58 is exhausted
ResourcesDone ==
    /\ pc = "deregister"
    /\ rIdx > Len(resources)
    /\ pc' = "grant_catalog"
    /\ UNCHANGED << exitStatus, calls, prog, services >>

\* ------------------------------------------------ 3. and 4. grants
\* What grant_permissions does to the permission service.
Granted(ps, principal, resource, granted) ==
    LET rec == [Principal |-> principal, Resource |-> StoredResource(resource),
                Permissions |-> granted]
    IN  IF \E i \in 1..Len(ps) :
               ps[i].Principal = principal /\ ps[i].Resource = rec.Resource
        THEN ps
        ELSE Append(ps, rec)

\* lines 64-68
GrantCatalog ==
    /\ pc = "grant_catalog"
    /\ \E ok \in BOOLEAN :
        /\ Issue("grant_permissions", iam_allowed_principal, catalog_resource, None, ok)
        /\ IF ok
           THEN /\ perms' = Granted(perms, iam_allowed_principal, catalog_resource,
                                    <<"CREATE_DATABASE">>)
                /\ pc' = "get_databases"
                /\ UNCHANGED exitStatus
           ELSE Raise /\ UNCHANGED perms
    /\ UNCHANGED prog
    /\ UNCHANGED << settings, registered, catalog, updated, pageSize >>

\* lines 72-75: one page of the get_databases paginator
GetDatabases ==
    /\ pc = "get_databases"
    /\ \E ok \in BOOLEAN :
        /\ Issue("get_databases", None, << >>, None, ok)
        /\ IF ok
           THEN LET r == Page(catalog, pageToken)
                IN  /\ databases' = databases \o r.items
                    /\ pageToken' = r.NextToken
                    /\ pc' = IF HasNextToken(r) THEN "get_databases" ELSE "databases"
                    /\ UNCHANGED exitStatus
           ELSE Raise /\ UNCHANGED << databases, pageToken >>
    /\ UNCHANGED << account_id, promptDepth, lastAnswer, data_lake_setting, res, resources,
                    rIdx, dbIdx, tables, tIdx, permissions, pIdx >>
    /\ UNCHANGED services

\* line 80: 'TargetDatabase' in d
IsResourceLinkDatabase(d) == d.TargetDatabase

IsResourceLinkTable_never(t) == FALSE

\* line 131: 'TargetTable' in t
IsResourceLinkTable(t) == t.TargetTable

\* lines 80-82: a resource-link database is skipped, its tables with it
SkipDatabase ==
    /\ pc = "databases"
    /\ dbIdx <= Len(databases)
    /\ IsResourceLinkDatabase(databases[dbIdx])
    /\ dbIdx' = dbIdx + 1
    /\ UNCHANGED << account_id, promptDepth, lastAnswer, data_lake_setting, res, resources,
                    rIdx, pageToken, databases, tables, tIdx, permissions, pIdx >>
    /\ UNCHANGED << pc, exitStatus, calls, services >>

\* lines 85-89
GrantDatabase ==
    /\ pc = "databases"
    /\ dbIdx <= Len(databases)
    /\ ~IsResourceLinkDatabase(databases[dbIdx])
    /\ LET d == databases[dbIdx] IN
       \E ok \in BOOLEAN :
        /\ Issue("grant_permissions", iam_allowed_principal, database_resource(d.Name),
                 d.Name, ok)
        /\ IF ok
           THEN /\ perms' = Granted(perms, iam_allowed_principal,
                                    database_resource(d.Name), <<"ALL">>)
                /\ pc' = "update_database"
                /\ UNCHANGED exitStatus
           ELSE Raise /\ UNCHANGED perms
    /\ UNCHANGED prog
    /\ UNCHANGED << settings, registered, catalog, updated, pageSize >>

\* lines 92-117: LocationUri is passed on only when it is neither None nor ''
\* (an omitted key is None here); Description and Parameters, which are copied
\* through unchanged, are left out.
database_input(d) ==
    [Name |-> d.Name,
     LocationUri |-> IF d.LocationUri # None /\ d.LocationUri # ""
                     THEN d.LocationUri ELSE None,
     CreateTableDefaultPermissions |-> << SentinelAll >>]

\* lines 118-123
UpdateDatabase ==
    /\ pc = "update_database"
    /\ LET d == databases[dbIdx] IN
       \E ok \in BOOLEAN :
        /\ Issue("update_database", None, << >>, d.Name, ok)
        /\ IF ok
           THEN /\ updated' = updated \cup { database_input(d) }
                /\ tables' = << >>
                /\ pageToken' = 0
                /\ pc' = "get_tables"
                /\ UNCHANGED exitStatus
           ELSE Raise /\ UNCHANGED << updated, tables, pageToken >>
    /\ UNCHANGED << account_id, promptDepth, lastAnswer, data_lake_setting, res, resources,
                    rIdx, databases, dbIdx, tIdx, permissions, pIdx >>
    /\ UNCHANGED << settings, registered, catalog, perms, pageSize >>

\* What get_tables(DatabaseName=name) lists.
TablesOf(name) ==
    LET i == CHOOSE j \in 1..Len(catalog) : catalog[j].Name = name
    IN  catalog[i].Tables

\* lines 124-125: one page of the get_tables paginator
GetTables ==
    /\ pc = "get_tables"
    /\ LET d == databases[dbIdx] IN
       \E ok \in BOOLEAN :
        /\ Issue("get_tables", None, << >>, d.Name, ok)
        /\ IF ok
           THEN LET r == Page(TablesOf(d.Name), pageToken)
                IN  /\ tables' = tables \o r.items
                    /\ pageToken' = r.NextToken
                    /\ tIdx' = 1
                    /\ pc' = IF HasNextToken(r) THEN "get_tables" ELSE "tables"
                    /\ UNCHANGED exitStatus
           ELSE Raise /\ UNCHANGED << tables, pageToken, tIdx >>
    /\ UNCHANGED << account_id, promptDepth, lastAnswer, data_lake_setting, res, resources,
                    rIdx, databases, dbIdx, permissions, pIdx >>
    /\ UNCHANGED services

\* lines 131-133
SkipTable ==
    /\ pc = "tables"
    /\ tIdx <= Len(tables)
    /\ IsResourceLinkTable(tables[tIdx])
    /\ tIdx' = tIdx + 1
    /\ UNCHANGED << account_id, promptDepth, lastAnswer, data_lake_setting, res, resources,
                    rIdx, pageToken, databases, dbIdx, tables, permissions, pIdx >>
    /\ UNCHANGED << pc, exitStatus, calls, services >>

\* lines 135-139
GrantTable ==
    /\ pc = "tables"
    /\ tIdx <= Len(tables)
    /\ ~IsResourceLinkTable(tables[tIdx])
    /\ LET d == databases[dbIdx]
           t == tables[tIdx]
       IN
       \E ok \in BOOLEAN :
        /\ Issue("grant_permissions", iam_allowed_principal,
                 table_resource(d.Name, t.Name), t.Name, ok)
        /\ IF ok
           THEN /\ perms' = Granted(perms, iam_allowed_principal,
                                    table_resource(d.Name, t.Name), <<"ALL">>)
                /\ tIdx' = tIdx + 1
                /\ UNCHANGED << pc, exitStatus >>
           ELSE Raise /\ UNCHANGED << perms, tIdx >>
    /\ UNCHANGED << account_id, promptDepth, lastAnswer, data_lake_setting, res, resources,
                    rIdx, pageToken, databases, dbIdx, tables, permissions, pIdx >>
    /\ UNCHANGED << settings, registered, catalog, updated, pageSize >>

\* the loop of line 127 is exhausted: on to the next database
TablesDone ==
    /\ pc = "tables"
    /\ tIdx > Len(tables)
    /\ dbIdx' = dbIdx + 1
    /\ pc' = "databases"
    /\ UNCHANGED << account_id, promptDepth, lastAnswer, data_lake_setting, res, resources,
                    rIdx, pageToken, databases, tables, tIdx, permissions, pIdx >>
    /\ UNCHANGED << exitStatus, calls, services >>

\* the loop of line 76 is exhausted
DatabasesDone ==
    /\ pc = "databases"
    /\ dbIdx > Len(databases)
    /\ pc' = "list_permissions"
    /\ UNCHANGED << exitStatus, calls, prog, services >>

\* ------------------------------------------------ 5. revoke
\* lines 151-155: the first list_permissions call and the "while 'NextToken'
\* in res" loop
ListPermissions ==
    /\ pc = "list_permissions"
    /\ \E ok \in BOOLEAN :
        /\ Issue("list_permissions", None, << >>, None, ok)
        /\ IF ok
           THEN LET r == Page(perms, res.NextToken)
                IN  /\ res' = [NextToken |-> r.NextToken]
                    /\ permissions' = permissions \o r.items
                    /\ pc' = IF HasNextToken(r) THEN "list_permissions" ELSE "revoke"
                    /\ UNCHANGED exitStatus
           ELSE Raise /\ UNCHANGED << res, permissions >>
    /\ UNCHANGED << account_id, promptDepth, lastAnswer, data_lake_setting, resources, rIdx,
                    pageToken, databases, dbIdx, tables, tIdx, pIdx >>
    /\ UNCHANGED services

IsSentinel_never(p) == FALSE

\* line 157, negated
IsSentinel(p) == p.Principal.DataLakePrincipalIdentifier = "IAM_ALLOWED_PRINCIPALS"

\* line 157: a record of the sentinel principal is passed over
SkipSentinel ==
    /\ pc = "revoke"
    /\ pIdx <= Len(permissions)
    /\ IsSentinel(permissions[pIdx])
    /\ pIdx' = pIdx + 1
    /\ UNCHANGED << account_id, promptDepth, lastAnswer, data_lake_setting, res, resources,
                    rIdx, pageToken, databases, dbIdx, tables, tIdx, permissions >>
    /\ UNCHANGED << pc, exitStatus, calls, services >>

\* lines 161-164
SkipNotOwned ==
    /\ pc = "revoke"
    /\ pIdx <= Len(permissions)
    /\ ~IsSentinel(permissions[pIdx])
    /\ get_catalog_id(permissions[pIdx].Resource, 0) # account_id
    /\ pIdx' = pIdx + 1
    /\ UNCHANGED << account_id, promptDepth, lastAnswer, data_lake_setting, res, resources,
                    rIdx, pageToken, databases, dbIdx, tables, tIdx, permissions >>
    /\ UNCHANGED << pc, exitStatus, calls, services >>

\* What revoke_permissions does to the permission service: every permission
\* of the record is revoked, so the record goes.
Revoked(ps, p) ==
    SelectSeq(ps, LAMBDA q : ~(q.Principal = p.Principal /\ q.Resource = p.Resource))

RevokePermissions_uncaught ==
    /\ pc = "revoke"
    /\ pIdx <= Len(permissions)
    /\ ~IsSentinel(permissions[pIdx])
    /\ get_catalog_id(permissions[pIdx].Resource, 0) = account_id
    /\ LET p == permissions[pIdx] IN
       \E ok \in BOOLEAN :
        /\ Issue("revoke_permissions", p.Principal, p.Resource, None, ok)
        /\ IF ok
           THEN /\ perms' = Revoked(perms, p)
                /\ pIdx' = pIdx + 1
                /\ UNCHANGED << pc, exitStatus >>
           ELSE Raise /\ UNCHANGED << perms, pIdx >>
    /\ UNCHANGED << account_id, promptDepth, lastAnswer, data_lake_setting, res, resources,
                    rIdx, pageToken, databases, dbIdx, tables, tIdx, permissions >>
    /\ UNCHANGED << settings, registered, catalog, updated, pageSize >>

\* lines 165-171: the call sits in try/except Exception, which prints the
\* error and lets the loop go on
RevokePermissions ==
    /\ pc = "revoke"
    /\ pIdx <= Len(permissions)
    /\ ~IsSentinel(permissions[pIdx])
    /\ get_catalog_id(permissions[pIdx].Resource, 0) = account_id
    /\ LET p == permissions[pIdx] IN
       \E ok \in BOOLEAN :
        /\ Issue("revoke_permissions", p.Principal, p.Resource, None, ok)
        /\ perms' = IF ok THEN Revoked(perms, p) ELSE perms
    /\ pIdx' = pIdx + 1
    /\ UNCHANGED << account_id, promptDepth, lastAnswer, data_lake_setting, res, resources,
                    rIdx, pageToken, databases, dbIdx, tables, tIdx, permissions >>
    /\ UNCHANGED << pc, exitStatus >>
    /\ UNCHANGED << settings, registered, catalog, updated, pageSize >>

\* line 174: print("Completed!"), and the script ends
Completed ==
    /\ pc = "revoke"
    /\ pIdx > Len(permissions)
    /\ pc' = "done"
    /\ exitStatus' = 0
    /\ UNCHANGED << calls, prog, services >>

Next ==
    \/ GetCallerIdentity
    \/ Prompt
    \/ GetDataLakeSettings
    \/ PutDataLakeSettings
    \/ ListResources
    \/ DeregisterResource
    \/ ResourcesDone
    \/ GrantCatalog
    \/ GetDatabases
    \/ SkipDatabase
    \/ GrantDatabase
    \/ UpdateDatabase
    \/ GetTables
    \/ SkipTable
    \/ GrantTable
    \/ TablesDone
    \/ DatabasesDone
    \/ ListPermissions
    \/ SkipSentinel
    \/ SkipNotOwned
    \/ RevokePermissions
    \/ Completed

Spec == Init /\ [][Next]_vars

\* ================================================================ claims
MutatingOps ==
    { "put_data_lake_settings", "deregister_resource", "grant_permissions",
      "update_database", "revoke_permissions" }

CallIdx(op) == { i \in 1..Len(calls) : calls[i].op = op }
OkIdx(op) == { i \in CallIdx(op) : calls[i].ok }
Mutated == \E i \in 1..Len(calls) : calls[i].op \in MutatingOps

\* "n"/"no" and "y"/"yes" in every letter case
DeclineAnswers == { "n", "N", "no", "No", "nO", "NO" }
ConfirmAnswers == { "y", "Y", "yes", "Yes", "yEs", "yeS", "YEs", "YeS", "yES", "YES" }

\* C1: an answer of "n" or "no", in any letter case and at any prompt, ends
\* the program with status 0 and without a mutating call; and a mutating call
\* has only been made once the operator answered "y" or "yes".
C1_DeclineChangesNothing ==
    /\ lastAnswer \in DeclineAnswers => pc = "exited" /\ exitStatus = 0 /\ ~Mutated
    /\ Mutated => lastAnswer \in ConfirmAnswers

C1_Witness == pc = "exited" /\ lastAnswer = "No" /\ promptDepth = 2 /\ calls # << >>

\* C2: after a full run no permission record of a non-sentinel principal is
\* left on a resource of the invoking account.
C2_OnlySentinelOnOwned ==
    pc = "done" =>
        \A i \in 1..Len(perms) :
            ContainsCatalogId(perms[i].Resource, account_id)
                => perms[i].Principal.DataLakePrincipalIdentifier = Sentinel

\* C3: after a full run no location is registered, and every location of the
\* listing, whichever page it came on, was deregistered.
C3_NoLocationRemains ==
    pc = "done" =>
        /\ registered = << >>
        /\ \A k \in 1..Len(resources) :
               \E i \in OkIdx("deregister_resource") : calls[i].name = resources[k]

C3_Witness == pc = "done" /\ pageSize = 1 /\ Len(resources) >= 2

\* C4: after a full run each of the two default-permission lists of the
\* settings is exactly the one grant of ALL to IAM_ALLOWED_PRINCIPALS.
C4_DefaultsAreSentinelAll ==
    pc = "done" =>
        LET only == << [Principal |-> [DataLakePrincipalIdentifier |-> "IAM_ALLOWED_PRINCIPALS"],
                        Permissions |-> <<"ALL">>] >>
        IN  /\ settings.CreateDatabaseDefaultPermissions = only
            /\ settings.CreateTableDefaultPermissions = only

C4_Witness ==
    /\ pc = "done"
    /\ OkIdx("put_data_lake_settings") # {}
    /\ settings.DataLakeAdmins = << Principal("admin") >>
    /\ settings.CreateTableDefaultPermissions = << SentinelAll >>

\* The catalog's record of the database / table a grant names.
IsLinkDatabaseName(name) ==
    \E j \in 1..Len(catalog) : catalog[j].Name = name /\ catalog[j].TargetDatabase
IsLinkTableName(db, name) ==
    \E j \in 1..Len(catalog) :
        /\ catalog[j].Name = db
        /\ \E k \in 1..Len(catalog[j].Tables) :
               catalog[j].Tables[k].Name = name /\ catalog[j].Tables[k].TargetTable

\* C5: no grant_permissions call names a resource-link database or a
\* resource-link table.
C5_NoGrantOnResourceLink ==
    \A i \in CallIdx("grant_permissions") :
        LET r == calls[i].resource
        IN  /\ r[1].key = "Database" => ~IsLinkDatabaseName(r[2].val)
            /\ r[1].key = "Table" =>
                   ~IsLinkDatabaseName(r[2].val) /\ ~IsLinkTableName(r[2].val, r[3].val)

C5_Witness ==
    /\ pc = "done"
    /\ \E j \in 1..Len(databases) : databases[j].TargetDatabase
    /\ \E i \in CallIdx("grant_permissions") : calls[i].resource[1].key = "Table"
    /\ \E j \in 1..Len(tables) : tables[j].TargetTable

\* The records of a listing that the revoke loop passes to revoke_permissions.
Eligible(list) ==
    SelectSeq(list, LAMBDA p :
        /\ p.Principal.DataLakePrincipalIdentifier # Sentinel
        /\ get_catalog_id(p.Resource, 0) = account_id)

RevokeCalls == SelectSeq(calls, LAMBDA c : c.op = "revoke_permissions")

\* C6: a failed revoke_permissions does not end the program: the records after
\* it are revoked or skipped as they would have been, and the program
\* completes with status 0.
C6_RevokeFailureIsSkipped ==
    (\E i \in CallIdx("revoke_permissions") : ~calls[i].ok) =>
        /\ pc \in { "revoke", "done" }
        /\ LET seen == Eligible(SubSeq(permissions, 1, pIdx - 1))
           IN  /\ Len(RevokeCalls) = Len(seen)
               /\ \A k \in 1..Len(seen) :
                      /\ RevokeCalls[k].principal = seen[k].Principal
                      /\ RevokeCalls[k].resource = seen[k].Resource
        /\ pc = "done" => exitStatus = 0 /\ pIdx = Len(permissions) + 1

C6_Witness ==
    /\ pc = "done"
    /\ \E i, j \in CallIdx("revoke_permissions") : i < j /\ ~calls[i].ok /\ calls[j].ok

\* C7: a failed call other than revoke_permissions is the last call the
\* program issues; it ends with a non-zero status, "Completed!" is not
\* reached, and what the earlier calls changed stays changed.
C7_OtherFailureTerminates ==
    \A i \in 1..Len(calls) :
        (calls[i].op # "revoke_permissions" /\ ~calls[i].ok) =>
            /\ i = Len(calls)
            /\ pc = "crashed"
            /\ exitStatus # 0
            /\ OkIdx("put_data_lake_settings") # {} =>
                   settings.CreateDatabaseDefaultPermissions = << SentinelAll >>
            /\ \A j \in OkIdx("deregister_resource") :
                   \A k \in 1..Len(registered) : registered[k] # calls[j].name
            /\ \A j \in OkIdx("grant_permissions") :
                   \E k \in 1..Len(perms) :
                       /\ perms[k].Principal = calls[j].principal
                       /\ perms[k].Resource = StoredResource(calls[j].resource)
            /\ \A j \in OkIdx("update_database") :
                   \E u \in updated : u.Name = calls[j].name

C7_Witness ==
    /\ pc = "crashed"
    /\ OkIdx("deregister_resource") # {}
    /\ OkIdx("update_database") # {}
    /\ calls[Len(calls)].op = "get_tables"

\* C8: a record of a non-sentinel principal is passed to revoke_permissions
\* exactly if its resource holds, at some depth, a CatalogId equal to the
\* caller's account id.
C8_RevokedIffCatalogIdAnywhere ==
    \A k \in 1..(pIdx - 1) :
        permissions[k].Principal.DataLakePrincipalIdentifier # Sentinel =>
            ( (\E i \in CallIdx("revoke_permissions") :
                   /\ calls[i].principal = permissions[k].Principal
                   /\ calls[i].resource = permissions[k].Resource)
              <=> ContainsCatalogId(permissions[k].Resource, account_id) )

\* C9: a list is fetched to its last page before any of its items is
\* processed, and after a full run every item was processed exactly once.
C9_ListsReadBeforeProcessing ==
    /\ \A i \in CallIdx("deregister_resource") :
           /\ \A j \in CallIdx("list_resources") : j < i
           /\ Len(resources) = Len(registered) + Cardinality(OkIdx("deregister_resource"))
    /\ \A i \in CallIdx("revoke_permissions") :
           /\ \A j \in CallIdx("list_permissions") : j < i
           /\ Len(permissions) = Len(perms) + Cardinality(OkIdx("revoke_permissions"))
    /\ pc \in { "databases", "update_database", "get_tables", "tables" } =>
           databases = catalog
    /\ pc = "tables" => tables = TablesOf(databases[dbIdx].Name)
    /\ pc = "done" =>
           /\ resources = [k \in 1..Len(resources) |->
                              SelectSeq(calls, LAMBDA c : c.op = "deregister_resource")[k].name]
           /\ Len(resources) = Cardinality(CallIdx("deregister_resource"))
           /\ databases = catalog
           /\ pIdx = Len(permissions) + 1
           /\ Len(RevokeCalls) = Len(Eligible(permissions))

C9_Witness ==
    /\ pc = "done"
    /\ pageSize = 1
    /\ Len(resources) >= 2
    /\ Len(databases) >= 2
    /\ Cardinality(CallIdx("list_permissions")) >= 3
    /\ OkIdx("revoke_permissions") # {}

\* C10: revoke_permissions is never called for a record of
\* IAM_ALLOWED_PRINCIPALS and only after every grant of steps 3 and 4 was
\* issued; what those grants gave the sentinel principal stays granted.
C10_SentinelGrantsSurvive ==
    /\ \A i \in CallIdx("revoke_permissions") :
           /\ calls[i].principal.DataLakePrincipalIdentifier # "IAM_ALLOWED_PRINCIPALS"
           /\ \A j \in CallIdx("grant_permissions") : j < i
           /\ \E j \in OkIdx("grant_permissions") : calls[j].resource = catalog_resource
           /\ \A d \in 1..Len(catalog) :
                  ~catalog[d].TargetDatabase =>
                      /\ \E j \in OkIdx("grant_permissions") :
                             calls[j].resource = database_resource(catalog[d].Name)
                      /\ \A t \in 1..Len(catalog[d].Tables) :
                             ~catalog[d].Tables[t].TargetTable =>
                                 \E j \in OkIdx("grant_permissions") :
                                     calls[j].resource =
                                         table_resource(catalog[d].Name,
                                                        catalog[d].Tables[t].Name)
    /\ \A j \in OkIdx("grant_permissions") :
           \E k \in 1..Len(perms) :
               /\ perms[k].Principal.DataLakePrincipalIdentifier = "IAM_ALLOWED_PRINCIPALS"
               /\ perms[k].Resource = StoredResource(calls[j].resource)

C10_Witness ==
    /\ pc = "done"
    /\ OkIdx("revoke_permissions") # {}
    /\ \E j \in OkIdx("grant_permissions") : calls[j].resource[1].key = "Table"
    /\ \E k \in 1..Len(permissions) :
           /\ permissions[k].Principal.DataLakePrincipalIdentifier = Sentinel
           /\ get_catalog_id(permissions[k].Resource, 0) = account_id

====
